---- MODULE Spec2Model ----
(***************************************************************************)
(* Model of the news scraping pipeline of backend/news_scraper.py and      *)
(* backend/server.py: the retrying fetch (NewsScraper.scrape_article), the *)
(* HTML extraction heuristics, the summarizer (NewsAISummarizer) and the   *)
(* POST /news/scrape handler (scrape_news).                                *)
(*                                                                         *)
(* Text is modelled as a sequence of one-character strings, so that len(), *)
(* split(), strip(), replace() and slicing are computed on characters.     *)
(***************************************************************************)
EXTENDS Integers, Sequences, FiniteSets, TLC

\* ------------------------------------------------------------------------
\* Bounds of the model
\* ------------------------------------------------------------------------
MaxWords == 62          \* bodies handed to the summarizer have up to this many words
MaxUrls == 2            \* length of the URL list of one scrape request
MaxRetriesArg == 4      \* largest max_retries passed to scrape_article directly
MaxArticles == 3        \* articles created over one run of the /news routes

\* ------------------------------------------------------------------------
\* Python str primitives
\* ------------------------------------------------------------------------
Whitespace == {" ", "\n", "\t"}

Min(a, b) == IF a < b THEN a ELSE b

\* s[:n]
Take(s, n) == SubSeq(s, 1, Min(n, Len(s)))

\* s[n:]  (0-based n)
Drop(s, n) == SubSeq(s, n + 1, Len(s))

RECURSIVE LStrip(_)
LStrip(s) ==
    IF s = <<>> THEN <<>>
    ELSE IF Head(s) \in Whitespace THEN LStrip(Tail(s)) ELSE s

RECURSIVE RStrip(_)
RStrip(s) ==
    IF s = <<>> THEN <<>>
    ELSE IF s[Len(s)] \in Whitespace THEN RStrip(SubSeq(s, 1, Len(s) - 1)) ELSE s

\* str.strip()
Strip(s) == RStrip(LStrip(s))

Indices(s) == [i \in 1..Len(s) |-> i]

\* str.split(): the maximal runs of non-whitespace characters
WordStarts(s) ==
    SelectSeq(Indices(s), LAMBDA i : s[i] \notin Whitespace /\ (i = 1 \/ s[i - 1] \in Whitespace))

WordEnds(s) ==
    SelectSeq(Indices(s), LAMBDA i : s[i] \notin Whitespace /\ (i = Len(s) \/ s[i + 1] \in Whitespace))

Split(s) ==
    LET starts == WordStarts(s)
        ends == WordEnds(s)
    IN  [k \in 1..Len(starts) |-> SubSeq(s, starts[k], ends[k])]

\* sep.join(parts)
RECURSIVE Join(_, _)
Join(sep, parts) ==
    IF parts = <<>> THEN <<>>
    ELSE IF Len(parts) = 1 THEN parts[1]
    ELSE LET h == Len(parts) \div 2
         IN  Join(sep, SubSeq(parts, 1, h)) \o sep \o Join(sep, SubSeq(parts, h + 1, Len(parts)))

\* s.startswith(p)
StartsWith(s, p) == Len(s) >= Len(p) /\ SubSeq(s, 1, Len(p)) = p

\* s.find(p, from) with 1-based positions: the first occurrence of p at or
\* after from, 0 when there is none
IndexOf(s, p, from) ==
    LET at == {i \in from..(Len(s) - Len(p) + 1) : SubSeq(s, i, i + Len(p) - 1) = p}
    IN  IF at = {} THEN 0 ELSE CHOOSE i \in at : \A j \in at : i <= j

\* p in s
Contains(s, p) == IndexOf(s, p, 1) # 0

\* s.replace(p, ""), p non-empty: the non-overlapping occurrences, left to right
RECURSIVE Remove(_, _)
Remove(s, p) ==
    LET k == IndexOf(s, p, 1)
    IN  IF k = 0 THEN s
        ELSE SubSeq(s, 1, k - 1) \o Remove(Drop(s, k + Len(p) - 1), p)

\* s.split("\n")
LineBreaks(s) == SelectSeq(Indices(s), LAMBDA i : s[i] = "\n")

SplitLines(s) ==
    LET nl == LineBreaks(s)
    IN  [k \in 1..(Len(nl) + 1) |->
            SubSeq(s, IF k = 1 THEN 1 ELSE nl[k - 1] + 1,
                      IF k = Len(nl) + 1 THEN Len(s) ELSE nl[k] - 1)]

\* ------------------------------------------------------------------------
\* Exceptions: the classes the model raises and their base classes
\* ------------------------------------------------------------------------
Bases ==
    [ HTTPError |-> {"HTTPError", "RequestException", "Exception"},
      ConnectionError |-> {"ConnectionError", "RequestException", "Exception"},
      Timeout |-> {"Timeout", "RequestException", "Exception"},
      RequestException |-> {"RequestException", "Exception"},
      ValueError |-> {"ValueError", "Exception"},
      TypeError |-> {"TypeError", "Exception"},
      AttributeError |-> {"AttributeError", "Exception"},
      PyMongoError |-> {"PyMongoError", "Exception"},
      Exception |-> {"Exception"} ]

\* the first except clause that catches exception class exc, "" when none does
RECURSIVE FirstHandler(_, _)
FirstHandler(exc, clauses) ==
    IF clauses = <<>> THEN ""
    ELSE IF Head(clauses) \in Bases[exc] THEN Head(clauses)
    ELSE FirstHandler(exc, Tail(clauses))

\* ------------------------------------------------------------------------
\* NewsAISummarizer
\* ------------------------------------------------------------------------
Technology == <<"T", "e", "c", "h", "n", "o", "l", "o", "g", "y">>
Business == <<"B", "u", "s", "i", "n", "e", "s", "s">>
Sports == <<"S", "p", "o", "r", "t", "s">>

CATEGORIES == {Technology, Business, Sports}

SUMMARY_FIELD == <<"S", "U", "M", "M", "A", "R", "Y", ":">>
CATEGORY_FIELD == <<"C", "A", "T", "E", "G", "O", "R", "Y", ":">>

Ellipsis == <<".", ".", ".">>

FallbackWords == 60

PromptChars == 2000

\* _fallback_summary with the ellipsis test written as >= 60
Mut_fallback_summary(content) ==
    LET words == Split(content)
    IN  Join(<<" ">>, Take(words, FallbackWords))
            \o (IF Len(words) >= FallbackWords THEN Ellipsis ELSE <<>>)

\* _fallback_summary(content)
_fallback_summary(content) ==
    LET words == Split(content)
    IN  Join(<<" ">>, Take(words, FallbackWords))
            \o (IF Len(words) > FallbackWords THEN Ellipsis ELSE <<>>)

\* _extract_field(text, field_name): the first line holding the marker, with
\* the marker removed and the rest stripped; "" when no line holds it
RECURSIVE FirstLineWith(_, _)
FirstLineWith(lines, field_name) ==
    IF lines = <<>> THEN <<>>
    ELSE IF Contains(Head(lines), field_name)
         THEN Strip(Remove(Head(lines), field_name))
         ELSE FirstLineWith(Tail(lines), field_name)

_extract_field(text, field_name) == FirstLineWith(SplitLines(text), field_name)

\* the category validation left out
Mut_validate_category(category) == category

\* "Validate category": anything outside CATEGORIES becomes Business
validate_category(category) ==
    IF category \notin CATEGORIES THEN Business ELSE category

\* The prompt sent to the capability holds the title and content[:2000]
Prompt(article) == [title |-> article.title, content |-> Take(article.content, PromptChars)]

\* "except Exception as e" of summarize_and_categorize
SummarizeExceptClauses == <<"Exception">>

\* an empty summary field returned as it is, without the fallback
Mut_SummarizeTry(article, cap) ==
    IF cap.raises # ""
    THEN [raised |-> cap.raises, summary |-> <<>>, category |-> <<>>]
    ELSE IF ~cap.success
    THEN [raised |-> "", summary |-> _fallback_summary(article.content), category |-> Business]
    ELSE IF ~cap.has_content
    THEN [raised |-> "AttributeError", summary |-> <<>>, category |-> <<>>]
    ELSE [raised |-> "", summary |-> Strip(_extract_field(cap.content, SUMMARY_FIELD)),
          category |-> Strip(validate_category(_extract_field(cap.content, CATEGORY_FIELD)))]

\* the try block of summarize_and_categorize under one behaviour cap of
\* agent.execute(prompt): the call raised cap.raises, or it returned a
\* result object with success and content; a result whose content is None
\* (has_content FALSE) makes text.split raise AttributeError
SummarizeTry(article, cap) ==
    IF cap.raises # ""
    THEN [raised |-> cap.raises, summary |-> <<>>, category |-> <<>>]
    ELSE IF ~cap.success
    THEN [raised |-> "", summary |-> _fallback_summary(article.content), category |-> Business]
    ELSE IF ~cap.has_content
    THEN [raised |-> "AttributeError", summary |-> <<>>, category |-> <<>>]
    ELSE LET summary == _extract_field(cap.content, SUMMARY_FIELD)
             category == validate_category(_extract_field(cap.content, CATEGORY_FIELD))
             summary2 == IF summary = <<>>
                         THEN _fallback_summary(article.content)
                         ELSE summary
         IN  [raised |-> "", summary |-> Strip(summary2), category |-> Strip(category)]

\* summarize_and_categorize(article): the try block, and the handler that
\* turns an exception into the fallback result
summarize_and_categorize(article, cap) ==
    LET r == SummarizeTry(article, cap)
    IN  IF r.raised = "" THEN r
        ELSE IF FirstHandler(r.raised, SummarizeExceptClauses) # ""
        THEN [raised |-> "", summary |-> _fallback_summary(article.content),
              category |-> Business]
        ELSE r

\* ------------------------------------------------------------------------
\* Parsed HTML (BeautifulSoup): a document is the sequence of its elements
\* in document order; parent is the index of the enclosing element, 0 for
\* the root.  text is the element's own text; tag, class, property and
\* name are atoms, content/src/text are character sequences.
\* ------------------------------------------------------------------------
El(tag, cls, property, name, has_content, content, src, text, parent) ==
    [tag |-> tag, cls |-> cls, property |-> property, name |-> name,
     has_content |-> has_content, content |-> content, src |-> src,
     text |-> text, parent |-> parent]

RECURSIVE IsInside(_, _, _)
IsInside(doc, j, i) ==
    IF doc[j].parent = 0 THEN FALSE
    ELSE IF doc[j].parent = i THEN TRUE
    ELSE IsInside(doc, doc[j].parent, i)

\* what find, find_all and select_one look for: a tag name, a class, a
\* property attribute, a name attribute; "" leaves that part unconstrained
Sel(tag, cls, property, name) == [tag |-> tag, cls |-> cls, property |-> property, name |-> name]

Matches(e, sel) ==
    /\ sel.tag = "" \/ e.tag = sel.tag
    /\ sel.cls = "" \/ sel.cls \in e.cls
    /\ sel.property = "" \/ e.property = sel.property
    /\ sel.name = "" \/ e.name = sel.name

\* the indices, in document order, of the elements of scope that match sel;
\* scope 0 is the whole document, otherwise the descendants of element scope
InScope(doc, j, scope) == scope = 0 \/ IsInside(doc, j, scope)

FindAll(doc, scope, sel) ==
    SelectSeq(Indices(doc), LAMBDA j : InScope(doc, j, scope) /\ Matches(doc[j], sel))

\* find / select_one: the first match, 0 (None) when there is none
Find(doc, scope, sel) ==
    LET all == FindAll(doc, scope, sel) IN IF all = <<>> THEN 0 ELSE all[1]

\* tag.get_text(): the text of the element and of its descendants, in order
RECURSIVE ConcatText(_, _)
ConcatText(doc, idxs) ==
    IF idxs = <<>> THEN <<>> ELSE doc[Head(idxs)].text \o ConcatText(doc, Tail(idxs))

GetText(doc, i) ==
    ConcatText(doc, SelectSeq(Indices(doc), LAMBDA j : j = i \/ IsInside(doc, j, i)))

select_one(doc, sel) == Find(doc, 0, sel)

\* ------------------------------------------------------------------------
\* NewsScraper extraction heuristics
\* ------------------------------------------------------------------------
\* the Open-Graph title tried before the headings
Mut_TitleSelectors ==
    << Sel("", "", "og:title", ""), Sel("h1", "", "", ""), Sel("h1", "article-title", "", ""),
       Sel("h1", "entry-title", "", "") >>

\* ["h1", "h1.article-title", "h1.entry-title", "[property='og:title']"]
TitleSelectors ==
    << Sel("h1", "", "", ""), Sel("h1", "article-title", "", ""),
       Sel("h1", "entry-title", "", ""), Sel("", "", "og:title", "") >>

ContentSelectors ==
    << Sel("article", "", "", ""), Sel("", "article-content", "", ""),
       Sel("", "post-content", "", ""), Sel("", "entry-content", "", ""),
       Sel("main", "", "", "") >>

MinContentLen == 100

Absent == [found |-> FALSE, value |-> <<>>]

Present(v) == [found |-> TRUE, value |-> v]

\* "if not x" for an Optional[str]: None and "" are both falsy
Falsy(opt) == ~opt.found \/ opt.value = <<>>

\* _extract_title(soup): the first selector that matches an element decides
RECURSIVE TitleFrom(_, _)
TitleFrom(doc, sels) ==
    IF sels = <<>>
    THEN LET t == Find(doc, 0, Sel("title", "", "", ""))
         IN  IF t # 0 THEN Present(Strip(GetText(doc, t))) ELSE Absent
    ELSE LET t == select_one(doc, Head(sels))
         IN  IF t # 0
             THEN (IF doc[t].has_content THEN Present(Strip(doc[t].content))
                                         ELSE Present(Strip(GetText(doc, t))))
             ELSE TitleFrom(doc, Tail(sels))

_extract_title(doc) == TitleFrom(doc, TitleSelectors)

\* " ".join([p.get_text().strip() for p in paragraphs])
ParagraphText(doc, ps) == Join(<<" ">>, [k \in 1..Len(ps) |-> Strip(GetText(doc, ps[k]))])

\* a body of exactly the minimum length accepted
Mut_LongEnough(content) == Len(content) >= MinContentLen

\* len(content) > 100
LongEnough(content) == Len(content) > MinContentLen

\* _extract_content(soup): each container selector in turn, then all paragraphs
RECURSIVE ContentFrom(_, _)
ContentFrom(doc, sels) ==
    IF sels = <<>>
    THEN LET ps == FindAll(doc, 0, Sel("p", "", "", ""))
         IN  IF ps # <<>> /\ LongEnough(ParagraphText(doc, ps))
             THEN Present(ParagraphText(doc, ps)) ELSE Absent
    ELSE LET c == select_one(doc, Head(sels))
             ps == IF c = 0 THEN <<>> ELSE FindAll(doc, c, Sel("p", "", "", ""))
         IN  IF c # 0 /\ ps # <<>> /\ LongEnough(ParagraphText(doc, ps))
             THEN Present(ParagraphText(doc, ps))
             ELSE ContentFrom(doc, Tail(sels))

_extract_content(doc) == ContentFrom(doc, ContentSelectors)

\* the first position of s holding one of chars, 0 if none
FirstOf(s, chars) ==
    LET hits == {i \in 1..Len(s) : s[i] \in chars}
    IN  IF hits = {} THEN 0 ELSE CHOOSE i \in hits : \A j \in hits : i <= j

\* urlparse(url) for URLs of the form scheme://netloc[/path][?query][#fragment]:
\* the netloc ends at the first "/", "?" or "#", the path at the first "?" or "#"
urlparse(url) ==
    LET sep == IndexOf(url, <<":", "/", "/">>, 1)
        rest == IF sep = 0 THEN url ELSE Drop(url, sep + 2)
        stop == FirstOf(rest, {"/", "?", "#"})
        after == IF sep = 0 THEN url ELSE IF stop = 0 THEN <<>> ELSE Drop(rest, stop - 1)
        cut == FirstOf(after, {"?", "#"})
    IN  [scheme |-> IF sep = 0 THEN <<>> ELSE SubSeq(url, 1, sep - 1),
         netloc |-> IF sep = 0 THEN <<>> ELSE IF stop = 0 THEN rest ELSE SubSeq(rest, 1, stop - 1),
         path |-> IF cut = 0 THEN after ELSE SubSeq(after, 1, cut - 1)]

\* a relative path resolved against the page's own path, not the host
Mut_make_absolute_url(url, base_url) ==
    IF StartsWith(url, <<"h", "t", "t", "p">>) THEN url
    ELSE urlparse(base_url).scheme \o <<":", "/", "/">> \o urlparse(base_url).netloc
         \o urlparse(base_url).path \o url

\* _make_absolute_url(url, base_url)
_make_absolute_url(url, base_url) ==
    IF StartsWith(url, <<"h", "t", "t", "p">>) THEN url
    ELSE urlparse(base_url).scheme \o <<":", "/", "/">> \o urlparse(base_url).netloc \o url

\* _extract_image(soup, base_url)
_extract_image(doc, base_url) ==
    LET og == Find(doc, 0, Sel("meta", "", "og:image", ""))
        tw == Find(doc, 0, Sel("meta", "", "", "twitter:image"))
        art == Find(doc, 0, Sel("article", "", "", ""))
        img == IF art = 0 THEN 0 ELSE Find(doc, art, Sel("img", "", "", ""))
    IN  IF og # 0 /\ doc[og].has_content /\ doc[og].content # <<>> THEN Present(doc[og].content)
        ELSE IF tw # 0 /\ doc[tw].has_content /\ doc[tw].content # <<>> THEN Present(doc[tw].content)
        ELSE IF img # 0 /\ doc[img].src # <<>> THEN Present(_make_absolute_url(doc[img].src, base_url))
        ELSE Absent

\* str.capitalize() over the letters the model's hosts use (the hosts are
\* lower case, so lowering the rest of the string changes nothing)
Upper(c) == CASE c = "a" -> "A" [] c = "b" -> "B" [] c = "w" -> "W" [] OTHER -> c

Capitalize(s) == IF s = <<>> THEN <<>> ELSE <<Upper(Head(s))>> \o Tail(s)

\* _get_source_name(url): netloc without "www.", up to the first dot, capitalized
_get_source_name(url) ==
    LET domain == Remove(urlparse(url).netloc, <<"w", "w", "w", ".">>)
        dot == IndexOf(domain, <<".">>, 1)
    IN  Capitalize(IF dot = 0 THEN domain ELSE SubSeq(domain, 1, dot - 1))

\* ------------------------------------------------------------------------
\* Texts the model draws its inputs from
\* ------------------------------------------------------------------------
Letters == <<"a", "b", "c", "d", "e", "f", "g", "h">>

\* the i-th word of a generated body: two letters, distinct for i < 64
Word(i) == <<Letters[((i \div 8) % 8) + 1], Letters[(i % 8) + 1]>>

Words(n) == [i \in 1..n |-> Word(i)]

\* a text of n words separated by sep, wrapped in pad
BodyText(n, sep, pad) == pad \o Join(sep, Words(n)) \o pad

Separators == {<<" ">>, <<" ", " ">>, <<"\n", "\t">>}

Pads == {<<>>, <<" ">>}

WordCounts == {0, 1, 45, 200} \cup (58..MaxWords)

SummaryLines ==
    { <<>>,
      SUMMARY_FIELD,
      SUMMARY_FIELD \o <<" ", " ">>,
      SUMMARY_FIELD \o <<" ">> \o BodyText(3, <<" ">>, <<>>),
      <<" ">> \o SUMMARY_FIELD \o <<" ", " ">> \o BodyText(2, <<" ", " ">>, <<>>) \o <<" ">>,
      <<"x", " ">> \o SUMMARY_FIELD \o BodyText(1, <<" ">>, <<>>),
      <<"s", "u", "m", "m", "a", "r", "y", ":", " ">> \o BodyText(2, <<" ">>, <<>>),
      SUMMARY_FIELD \o <<" ">> \o BodyText(FallbackWords + 1, <<" ">>, <<>>) }

CategoryLines ==
    { <<>>,
      CATEGORY_FIELD,
      CATEGORY_FIELD \o <<" ">> \o Sports,
      CATEGORY_FIELD \o Technology \o <<" ">>,
      <<" ">> \o CATEGORY_FIELD \o <<" ">> \o Business,
      CATEGORY_FIELD \o <<" ", "G", "o", "s", "s", "i", "p">>,
      CATEGORY_FIELD \o <<" ", "s", "p", "o", "r", "t", "s">>,
      CATEGORY_FIELD \o <<" ", "[">> \o Sports \o <<"]">>,
      CATEGORY_FIELD \o <<" ">> \o Sports \o <<" ", "o", "r", " ">> \o Business }

\* the responses of the capability: the two lines in either order, or on one line
Responses ==
    { Join(<<"\n">>, SelectSeq(<<s, c>>, LAMBDA l : l # <<>>)) : s \in SummaryLines, c \in CategoryLines }
    \cup { Join(<<"\n">>, <<c, s>>) : s \in SummaryLines \ {<<>>}, c \in CategoryLines \ {<<>>} }
    \cup { s \o <<" ">> \o c : s \in SummaryLines \ {<<>>}, c \in CategoryLines \ {<<>>} }

NoCap == [raises |-> "", success |-> FALSE, has_content |-> FALSE, content |-> <<>>]

\* the behaviours of agent.execute(prompt)
Capabilities ==
    { [raises |-> x, success |-> FALSE, has_content |-> FALSE, content |-> <<>>] :
          x \in {"Exception", "Timeout", "ValueError"} }
    \cup { [raises |-> "", success |-> FALSE, has_content |-> FALSE, content |-> <<>>],
           [raises |-> "", success |-> TRUE, has_content |-> FALSE, content |-> <<>>] }
    \cup { [raises |-> "", success |-> TRUE, has_content |-> TRUE, content |-> r] : r \in Responses }

\* a paragraph of exactly n characters (n < 120) that neither starts nor ends
\* with whitespace when n is not a multiple of 3
Para(n) == Take(BodyText(40, <<" ">>, <<>>), n)

NoText == <<>>

TitlePage == <<"P", "a", "g", "e">>
TitleNews == <<" ", "N", "e", "w", "s", "\n">>
ImgRelative == <<"/", "i", ".", "p", "n", "g">>
ImgAbsolute == <<"h", "t", "t", "p", ":", "/", "/", "c", ".", "d", "e", "/", "i">>

\* <h1> News </h1><article><p>101 chars</p><img src="/i.png"></article>
DocArticle ==
    << El("h1", {}, "", "", FALSE, NoText, NoText, TitleNews, 0),
       El("article", {}, "", "", FALSE, NoText, NoText, NoText, 0),
       El("p", {}, "", "", FALSE, NoText, NoText, Para(MinContentLen + 1), 2),
       El("img", {}, "", "", FALSE, NoText, ImgRelative, NoText, 2) >>

\* <title>Page</title><meta property="og:image" content="http://c.de/i">
\* <div class="post-content"><p>61 chars</p><p>40 chars</p></div>
DocTwoParas ==
    << El("title", {}, "", "", FALSE, NoText, NoText, TitlePage, 0),
       El("meta", {}, "og:image", "", TRUE, ImgAbsolute, NoText, NoText, 0),
       El("div", {"post-content"}, "", "", FALSE, NoText, NoText, NoText, 0),
       El("p", {}, "", "", FALSE, NoText, NoText, Para(61), 3),
       El("p", {}, "", "", FALSE, NoText, NoText, <<" ">> \o Para(40) \o <<" ">>, 3) >>

\* <h1> News </h1><article><p>100 chars</p></article>
DocShort ==
    << El("h1", {}, "", "", FALSE, NoText, NoText, TitleNews, 0),
       El("article", {}, "", "", FALSE, NoText, NoText, NoText, 0),
       El("p", {}, "", "", FALSE, NoText, NoText, Para(MinContentLen), 2) >>

\* <h1> News </h1><article></article>
DocNoParas ==
    << El("h1", {}, "", "", FALSE, NoText, NoText, TitleNews, 0),
       El("article", {}, "", "", FALSE, NoText, NoText, NoText, 0) >>

\* <main><p>110 chars</p></main>
DocNoTitle ==
    << El("main", {}, "", "", FALSE, NoText, NoText, NoText, 0),
       El("p", {}, "", "", FALSE, NoText, NoText, Para(110), 1) >>

\* <title>Page</title><h1> </h1><p>104 chars</p>
DocEmptyH1 ==
    << El("title", {}, "", "", FALSE, NoText, NoText, TitlePage, 0),
       El("h1", {}, "", "", FALSE, NoText, NoText, <<" ">>, 0),
       El("p", {}, "", "", FALSE, NoText, NoText, Para(104), 0) >>

Docs == {DocArticle, DocTwoParas, DocShort, DocNoParas, DocNoTitle, DocEmptyH1}

UrlA == <<"h", "t", "t", "p", ":", "/", "/", "a", ".", "c", "o", "/", "x">>
UrlB == <<"h", "t", "t", "p", "s", ":", "/", "/", "w", "w", "w", ".", "b", ".", "i", "o", "/", "n">>

UrlSet == {UrlA, UrlB}

\* ------------------------------------------------------------------------
\* Documents assembled from fragments, for the extraction methods
\* ------------------------------------------------------------------------
\* a fragment placed after k elements: its inner parent links move with it
Shift(frag, k) ==
    [i \in 1..Len(frag) |-> [frag[i] EXCEPT !.parent = IF @ = 0 THEN 0 ELSE @ + k]]

Cat(a, b) == a \o Shift(b, Len(a))

\* <container> frag </container>
Wrap(container, frag) ==
    <<container>> \o [i \in 1..Len(frag) |-> [frag[i] EXCEPT !.parent = @ + 1]]

Tag(tag, cls, text) == El(tag, cls, "", "", FALSE, NoText, NoText, text, 0)

MetaProperty(property, content) == El("meta", {}, property, "", TRUE, content, NoText, NoText, 0)

MetaName(name, content) == El("meta", {}, "", name, TRUE, content, NoText, NoText, 0)

TitleOg == <<" ", "O", "g", " ">>
TitleEntry == <<"E", "n", "t", "r", "y">>
TitleAttr == <<"A", "t", "t", "r">>

\* <meta property="og:title" ...>: missing, with content, with empty content,
\* without a content attribute
OgTitles ==
    { <<>>,
      <<MetaProperty("og:title", TitleOg)>>,
      <<MetaProperty("og:title", NoText)>>,
      <<El("meta", {}, "og:title", "", FALSE, NoText, NoText, NoText, 0)>> }

\* the headings of a page: none, one with text, a blank one, one of the
\* classes the selectors name, a blank one followed by one with text, one
\* with a content attribute
Headings ==
    { <<>>,
      <<Tag("h1", {}, TitleNews)>>,
      <<Tag("h1", {}, <<" ">>)>>,
      <<Tag("h1", {"entry-title"}, TitleEntry)>>,
      <<Tag("h1", {}, NoText), Tag("h1", {"article-title"}, TitleEntry)>>,
      <<El("h1", {}, "", "", TRUE, TitleAttr, NoText, TitleNews, 0)>> }

\* <title>: missing, with text, with padded text, empty
PageTitles ==
    { <<>>,
      <<Tag("title", {}, TitlePage)>>,
      <<Tag("title", {}, <<"\n", " ">> \o TitlePage \o <<" ">>)>>,
      <<Tag("title", {}, NoText)>> }

\* a body that passes the content check
GoodBody == Wrap(Tag("article", {}, NoText), <<Tag("p", {}, Para(MinContentLen + 1))>>)

TitleDocs ==
    { Cat(Cat(Cat(t, og), h), GoodBody) : t \in PageTitles, og \in OgTitles, h \in Headings }

\* paragraph lengths around the threshold: two paragraphs of 49 and 50
\* characters join to 100, two of 50 to 101
ParaLens ==
    {40, MinContentLen \div 2 - 1, MinContentLen \div 2, MinContentLen, MinContentLen + 1}

\* no paragraph, a paragraph of n characters, a padded one, an empty one
Paragraphs ==
    { <<>>, <<Tag("p", {}, NoText)>>,
      <<Tag("p", {}, <<" ", "\n">> \o Para(MinContentLen \div 2) \o <<" ">>)>> }
    \cup { <<Tag("p", {}, Para(n))>> : n \in ParaLens }

\* the containers the content selectors name
Containers ==
    { Tag("article", {}, NoText), Tag("div", {"article-content"}, NoText),
      Tag("div", {"post-content"}, NoText), Tag("div", {"entry-content"}, NoText),
      Tag("main", {}, NoText) }

ContainerPairs ==
    { <<Tag("article", {}, NoText), Tag("main", {}, NoText)>>,
      <<Tag("main", {}, NoText), Tag("article", {}, NoText)>>,
      <<Tag("div", {"entry-content"}, NoText), Tag("div", {"post-content"}, NoText)>>,
      <<Tag("section", {}, NoText), Tag("div", {"article-content"}, NoText)>> }

\* where two paragraphs can stand: both outside any container, both in one,
\* one inside and one outside, in two containers, in nested containers
Layouts(p1, p2) ==
    { Cat(p1, p2) }
    \cup { Wrap(c, Cat(p1, p2)) : c \in Containers }
    \cup { Cat(Wrap(c, p1), p2) : c \in Containers }
    \cup { Cat(Wrap(cs[1], p1), Wrap(cs[2], p2)) : cs \in ContainerPairs }
    \cup { Wrap(Tag("main", {}, NoText), Cat(Wrap(Tag("article", {}, NoText), p1), p2)) }

BodyDocs ==
    UNION { Layouts(p1, p2) : p1 \in Paragraphs, p2 \in Paragraphs }

ImgSecure == <<"h", "t", "t", "p", "s", ":", "/", "/", "c", ".", "d", "e", "/", "t">>
ImgBare == <<"i", ".", "p", "n", "g">>
ImgQuery == <<"/", "a", "/", "b", "?", "q", "=", "1">>
ImgProtocolRelative == <<"/", "/", "c", ".", "d", "e", "/", "i">>
ImgHttpDir == <<"h", "t", "t", "p", "d", "/", "i">>

Img(src) == El("img", {}, "", "", FALSE, NoText, src, NoText, 0)

\* <meta property="og:image" ...>: missing, absolute, relative, empty,
\* without a content attribute
OgImages ==
    { <<>>,
      <<MetaProperty("og:image", ImgAbsolute)>>,
      <<MetaProperty("og:image", ImgRelative)>>,
      <<MetaProperty("og:image", NoText)>>,
      <<El("meta", {}, "og:image", "", FALSE, NoText, NoText, NoText, 0)>> }

\* <meta name="twitter:image" ...>, the same ways
TwitterImages ==
    { <<>>,
      <<MetaName("twitter:image", ImgSecure)>>,
      <<MetaName("twitter:image", ImgBare)>>,
      <<MetaName("twitter:image", NoText)>>,
      <<El("meta", {}, "", "twitter:image", FALSE, NoText, NoText, NoText, 0)>> }

\* bodies that pass the content check: an <article> without an image, with
\* a relative, an absolute or a bare one, with an image without src before
\* one with src, and a <main> with an image outside any <article>
ImageBodies ==
    { GoodBody }
    \cup { Wrap(Tag("article", {}, NoText), <<Tag("p", {}, Para(MinContentLen + 1)), Img(src)>>) :
              src \in {ImgRelative, ImgSecure, ImgBare} }
    \cup { Wrap(Tag("article", {}, NoText),
                <<Tag("p", {}, Para(MinContentLen + 1)), Img(NoText), Img(ImgRelative)>>),
           Cat(Wrap(Tag("main", {}, NoText), <<Tag("p", {}, Para(MinContentLen + 1))>>),
               <<Img(ImgRelative)>>) }

ImageDocs ==
    { Cat(Cat(Cat(<<Tag("title", {}, TitlePage)>>, og), tw), body) :
          og \in OgImages, tw \in TwitterImages, body \in ImageBodies }

\* the url arguments of _make_absolute_url
UrlInputs ==
    {ImgAbsolute, ImgSecure, ImgHttpDir, ImgRelative, ImgQuery, ImgProtocolRelative, ImgBare, NoText}

Schemes == {<<"h", "t", "t", "p">>, <<"h", "t", "t", "p", "s">>}

Hosts == {<<"a", ".", "c", "o">>, <<"w", "w", "w", ".", "b", ".", "i", "o">>,
          <<"h", ":", "8", "0">>}

\* what follows the host in a base URL
Tails == {<<>>, <<"/">>, <<"/", "x">>, <<"/", "x", "/", "y", "?", "z", "=", "1">>,
          <<"?", "q", "=", "1">>, <<"#", "f">>}

BaseUrl(scheme, host, tail) == scheme \o <<":", "/", "/">> \o host \o tail

BaseUrls == { BaseUrl(sc, h, t) : sc \in Schemes, h \in Hosts, t \in Tails }

\* ------------------------------------------------------------------------
\* NewsScraper.scrape_article
\* ------------------------------------------------------------------------
DefaultMaxRetries == 3

\* what one requests.get can do: return a response, or raise
Statuses == {200, 401, 403, 404, 429, 500}

GetOutcomes ==
    { [raises |-> "", status |-> 200, doc |-> d] : d \in Docs }
    \cup { [raises |-> "", status |-> st, doc |-> <<>>] : st \in Statuses \ {200} }
    \cup { [raises |-> x, status |-> 0, doc |-> <<>>] : x \in {"ConnectionError", "Timeout", "ValueError"} }

NoArticle ==
    [some |-> FALSE, title |-> <<>>, content |-> <<>>, source_url |-> <<>>,
     source_name |-> <<>>, image_url |-> Absent]

NewsArticle(title, content, source_url, source_name, image_url) ==
    [some |-> TRUE, title |-> title, content |-> content, source_url |-> source_url,
     source_name |-> source_name, image_url |-> image_url]

ScrapeExceptClauses == <<"HTTPError", "RequestException", "Exception">>

\* time.sleep(2 ** attempt)
RECURSIVE Pow2(_)
Pow2(k) == IF k = 0 THEN 1 ELSE 2 * Pow2(k - 1)

\* the backoff without its "attempt > 0" guard
Mut_Backoff(attempt) == IF attempt >= 0 THEN <<[ev |-> "sleep", n |-> Pow2(attempt)]>> ELSE <<>>

\* "if attempt > 0: time.sleep(2 ** attempt)"
Backoff(attempt) == IF attempt > 0 THEN <<[ev |-> "sleep", n |-> Pow2(attempt)]>> ELSE <<>>

\* the body of one iteration of the retry loop after requests.get returned or
\* raised out: the branch taken and the article built by it
TryBody(out, url) ==
    IF out.raises # "" THEN [branch |-> out.raises, raised |-> TRUE, article |-> NoArticle]
    ELSE IF out.status \in {401, 403}
    THEN [branch |-> "access_denied", raised |-> FALSE, article |-> NoArticle]
    ELSE IF out.status >= 400 /\ out.status < 600
    THEN [branch |-> "HTTPError", raised |-> TRUE, article |-> NoArticle]
    ELSE LET title == _extract_title(out.doc)
             content == _extract_content(out.doc)
         IN  IF Falsy(title)
             THEN [branch |-> "no_title", raised |-> FALSE, article |-> NoArticle]
             ELSE IF Falsy(content)
             THEN [branch |-> "no_content", raised |-> FALSE, article |-> NoArticle]
             ELSE [branch |-> "article", raised |-> FALSE,
                   article |-> NewsArticle(title.value, content.value, url,
                                           _get_source_name(url),
                                           _extract_image(out.doc, url))]

\* giving up on the first attempt instead of the last
Mut_LastAttempt(attempt, max_retries) == attempt = 0

\* "if attempt == max_retries - 1: return None", else the loop goes on
LastAttempt(attempt, max_retries) == attempt = max_retries - 1

VARIABLES
    pc,             \* where the handler / scrape_article call stands
    url,            \* the url argument of the running scrape_article call
    max_retries,    \* its max_retries argument
    attempt,        \* the loop variable of "for attempt in range(max_retries)"
    trace,          \* the sleeps and GETs of the call, in order
    outcomes,       \* per attempt of the call: the status received and the branch taken
    article,        \* the value scrape_article returned
    use_ai,         \* USE_AI_SUMMARIZATION is "true"
    urls,           \* scrape_request.urls
    idx,            \* number of URLs of the request the loop is done with
    scraped_articles,
    failed_urls,
    error_details,
    response,       \* what scrape_news returned
    db,             \* the news_articles collection
    summarizer_calls,   \* the calls scrape_news made on the summarizer, with how each ended
    agent_calls,    \* the prompts passed to agent.execute
    sum_in,         \* a direct call of the summarizer: its article and the capability's behaviour
    sum_out,        \* and what it returned
    ex_in,          \* a direct call of one extraction method: the method and its arguments
    ex_out,         \* and what it returned
    news_call,      \* the last call on the /news routes, with its response
    now             \* the clock the routes stamp created articles with

scrapeVars == <<pc, url, max_retries, attempt, trace, outcomes, article>>

requestVars == <<urls, idx, scraped_articles, failed_urls, error_details, response, db,
                 summarizer_calls>>

sumVars == <<sum_in, sum_out>>

extractVars == <<ex_in, ex_out>>

newsVars == <<news_call, now>>

directVars == <<sumVars, extractVars, newsVars>>

vars == <<scrapeVars, use_ai, requestVars, agent_calls, directVars>>

\* a loop whose body runs once before max_retries is looked at
Mut_EnterScrape(u, n) ==
    /\ url' = u
    /\ max_retries' = n
    /\ attempt' = 0
    /\ trace' = <<>>
    /\ outcomes' = <<>>
    /\ article' = NoArticle
    /\ pc' = "scraping"

\* scrape_article(u, n) is entered; range(n) empty falls through to "return None"
EnterScrape(u, n) ==
    /\ url' = u
    /\ max_retries' = n
    /\ attempt' = 0
    /\ trace' = <<>>
    /\ outcomes' = <<>>
    /\ article' = NoArticle
    /\ pc' = IF n > 0 THEN "scraping" ELSE "returned"

\* one iteration of the retry loop
ScrapeAttempt ==
    /\ pc = "scraping"
    /\ \E out \in GetOutcomes :
        LET r == TryBody(out, url)
            handler == IF r.raised THEN FirstHandler(r.branch, ScrapeExceptClauses) ELSE "none"
        IN  /\ trace' = trace \o Backoff(attempt) \o <<[ev |-> "get", n |-> attempt + 1]>>
            /\ outcomes' = Append(outcomes, [status |-> out.status, branch |-> r.branch])
            /\ article' = r.article
            /\ attempt' = IF r.article.some THEN attempt ELSE attempt + 1
            /\ pc' = IF handler = "" THEN "scrape_raised"
                     ELSE IF r.article.some \/ LastAttempt(attempt, max_retries) THEN "returned"
                     ELSE IF attempt + 1 >= max_retries THEN "returned"
                     ELSE "scraping"
    /\ UNCHANGED <<url, max_retries, use_ai, requestVars, agent_calls, directVars>>

\* ------------------------------------------------------------------------
\* scrape_news (POST /news/scrape)
\* ------------------------------------------------------------------------
\* the attributes of a NewsAISummarizer object
SummarizerAttrs ==
    {"CATEGORIES", "config", "agent", "summarize_and_categorize", "_extract_field",
     "_fallback_summary"}

\* the parameters of NewsAISummarizer.summarize_and_categorize
SummarizeParams == {"self", "article"}

\* the keyword arguments scrape_news passes to it
SummarizeKwargs == {"timeout"}

AiExceptClauses == <<"Exception">>

\* a per-URL handler that catches TypeError only
Mut_UrlExceptClauses == <<"TypeError">>

\* "except Exception as e" around the processing of one URL
UrlExceptClauses == <<"Exception">>

MsgNotExtracted == "Could not extract article content. Website may be blocking automated access."
MsgNoAttribute == "'NewsAISummarizer' object has no attribute '_guess_category'"
MsgInsertFailed == "insert failed"

NoResponse == [success |-> FALSE, scraped_count |-> 0, failed_count |-> 0,
               articles |-> <<>>, failed_urls |-> <<>>, error_details |-> <<>>,
               message |-> <<>>]

NewsArticleModel(a, summary, category) ==
    [title |-> a.title, summary |-> summary, category |-> category,
     source_url |-> a.source_url, source_name |-> a.source_name, image_url |-> a.image_url]

\* the reason not stored
Mut_SetItem(d, k, v) == d

\* error_details[u] = msg
SetItem(d, k, v) == [x \in (DOMAIN d) \cup {k} |-> IF x = k THEN v ELSE d[x]]

\* failed_urls.append(url)
RecordedUrls(failed, u) == Append(failed, u)

\* the URL is recorded as failed with a reason and the loop goes on
UrlFails(msg, calls) ==
    /\ failed_urls' = RecordedUrls(failed_urls, url)
    /\ error_details' = SetItem(error_details, url, msg)
    /\ summarizer_calls' = summarizer_calls \o calls
    /\ idx' = idx + 1
    /\ pc' = "loop"
    /\ UNCHANGED <<scraped_articles, db, agent_calls>>

\* an exception of class exc raised while the URL is processed
UrlRaises(exc, msg, calls) ==
    IF FirstHandler(exc, UrlExceptClauses) # ""
    THEN UrlFails(msg, calls)
    ELSE /\ pc' = "raised"
         /\ summarizer_calls' = summarizer_calls \o calls
         /\ UNCHANGED <<failed_urls, error_details, idx, scraped_articles, db, agent_calls>>

\* the article model is built and inserted; the insert may fail
UrlSaved(summary, category, calls, prompts) ==
    \E inserted \in BOOLEAN :
        IF inserted
        THEN /\ db' = Append(db, NewsArticleModel(article, summary, category))
             /\ scraped_articles' = Append(scraped_articles, NewsArticleModel(article, summary, category))
             /\ summarizer_calls' = summarizer_calls \o calls
             /\ agent_calls' = agent_calls \o prompts
             /\ idx' = idx + 1
             /\ pc' = "loop"
             /\ UNCHANGED <<failed_urls, error_details>>
        ELSE IF FirstHandler("PyMongoError", UrlExceptClauses) # ""
        THEN /\ failed_urls' = RecordedUrls(failed_urls, url)
             /\ error_details' = SetItem(error_details, url, MsgInsertFailed)
             /\ summarizer_calls' = summarizer_calls \o calls
             /\ agent_calls' = agent_calls \o prompts
             /\ idx' = idx + 1
             /\ pc' = "loop"
             /\ UNCHANGED <<scraped_articles, db>>
        ELSE /\ pc' = "raised"
             /\ summarizer_calls' = summarizer_calls \o calls
             /\ agent_calls' = agent_calls \o prompts
             /\ UNCHANGED <<failed_urls, error_details, idx, scraped_articles, db>>

\* a call made on the summarizer for the article in hand, and the exception it raised
Call(method, raised) == [method |-> method, raised |-> raised, arg |-> article]

\* {"summary": summarizer._fallback_summary(article.content),
\*  "category": summarizer._guess_category(article.title, article.content)}
\* the dict display is evaluated left to right; the class defines no
\* _guess_category, whose result is any category should one be defined
FallbackResult(calls) ==
    IF "_fallback_summary" \notin SummarizerAttrs
    THEN UrlRaises("AttributeError", MsgNoAttribute, calls)
    ELSE IF "_guess_category" \notin SummarizerAttrs
    THEN UrlRaises("AttributeError", MsgNoAttribute,
                   calls \o <<Call("_fallback_summary", "")>>)
    ELSE \E guess \in CATEGORIES :
            UrlSaved(_fallback_summary(article.content), guess,
                     calls \o <<Call("_fallback_summary", ""), Call("_guess_category", "")>>,
                     <<>>)

\* the "if not article" check left out
Mut_NotArticle(a) == FALSE

\* "if not article"
NotArticle(a) == ~a.some

\* the rest of the loop body once scrape_article has returned
ProcessUrl ==
    /\ pc = "returned"
    /\ idx < Len(urls)
    /\ IF NotArticle(article)
       THEN UrlFails(MsgNotExtracted, <<>>)
       ELSE IF use_ai
       THEN IF SummarizeKwargs \subseteq SummarizeParams
            THEN \E cap \in Capabilities :
                    LET r == summarize_and_categorize(article, cap)
                    IN  IF r.raised = ""
                        THEN UrlSaved(r.summary, r.category,
                                      <<Call("summarize_and_categorize", "")>>,
                                      <<Prompt(article)>>)
                        ELSE IF FirstHandler(r.raised, AiExceptClauses) # ""
                        THEN FallbackResult(<<Call("summarize_and_categorize", r.raised)>>)
                        ELSE UrlRaises(r.raised, "summarization failed",
                                       <<Call("summarize_and_categorize", r.raised)>>)
            ELSE IF FirstHandler("TypeError", AiExceptClauses) # ""
            THEN FallbackResult(<<Call("summarize_and_categorize", "TypeError")>>)
            ELSE UrlRaises("TypeError", "unexpected keyword argument 'timeout'",
                           <<Call("summarize_and_categorize", "TypeError")>>)
       ELSE FallbackResult(<<>>)
    /\ UNCHANGED <<url, max_retries, attempt, trace, outcomes, article, use_ai, urls,
                   response, directVars>>

\* the handler is called with a list of URLs
ReceiveRequest ==
    /\ pc = "idle"
    /\ \E n \in 0..MaxUrls : \E us \in [1..n -> UrlSet] : urls' = us
    /\ idx' = 0
    /\ scraped_articles' = <<>>
    /\ failed_urls' = <<>>
    /\ error_details' = <<>>
    /\ pc' = "loop"
    /\ UNCHANGED <<url, max_retries, attempt, trace, outcomes, article, use_ai, response, db,
                   summarizer_calls, agent_calls, directVars>>

\* "for url in scrape_request.urls": article = scraper.scrape_article(url)
NextUrl ==
    /\ pc = "loop"
    /\ idx < Len(urls)
    /\ EnterScrape(urls[idx + 1], DefaultMaxRetries)
    /\ UNCHANGED <<use_ai, requestVars, agent_calls, directVars>>

\* the loop is over: the response is returned
Respond ==
    /\ pc = "loop"
    /\ idx = Len(urls)
    /\ response' = [success |-> TRUE,
                    scraped_count |-> Len(scraped_articles),
                    failed_count |-> Len(failed_urls),
                    articles |-> scraped_articles,
                    failed_urls |-> failed_urls,
                    error_details |-> error_details,
                    message |-> <<"scraped", Len(scraped_articles)>>
                                \o (IF failed_urls # <<>> THEN <<"failed", Len(failed_urls)>> ELSE <<>>)]
    /\ pc' = "done"
    /\ UNCHANGED <<url, max_retries, attempt, trace, outcomes, article, use_ai>>
    /\ UNCHANGED <<urls, idx, scraped_articles, failed_urls, error_details, db,
                   summarizer_calls, agent_calls, directVars>>

NoEx == [method |-> "", doc |-> <<>>, url |-> <<>>, base_url |-> <<>>]

NoExOut == [title |-> Absent, content |-> Absent, image_url |-> Absent, url |-> <<>>,
            article |-> NoArticle]

NoNewsCall == [route |-> "", category |-> Absent, limit |-> 0, id |-> 0, status |-> 0,
               articles |-> <<>>]

NoSumOut == [raised |-> "", summary |-> <<>>, category |-> <<>>]

NoSum == [article |-> NoArticle, cap |-> NoCap, words |-> 0, method |-> ""]

Init ==
    /\ pc = "idle"
    /\ url = <<>>
    /\ max_retries = 0
    /\ attempt = 0
    /\ trace = <<>>
    /\ outcomes = <<>>
    /\ article = NoArticle
    /\ use_ai \in BOOLEAN
    /\ urls = <<>>
    /\ idx = 0
    /\ scraped_articles = <<>>
    /\ failed_urls = <<>>
    /\ error_details = <<>>
    /\ response = NoResponse
    /\ db = <<>>
    /\ summarizer_calls = <<>>
    /\ agent_calls = <<>>
    /\ sum_in = NoSum
    /\ sum_out = NoSumOut
    /\ ex_in = NoEx
    /\ ex_out = NoExOut
    /\ news_call = NoNewsCall
    /\ now = 0

Next == ReceiveRequest \/ NextUrl \/ ScrapeAttempt \/ ProcessUrl \/ Respond

Spec == Init /\ [][Next]_vars

\* ------------------------------------------------------------------------
\* scrape_article called directly, with any max_retries
\* ------------------------------------------------------------------------
CallScrape ==
    /\ pc = "idle"
    /\ \E u \in UrlSet : \E n \in 0..MaxRetriesArg : EnterScrape(u, n)
    /\ UNCHANGED <<use_ai, requestVars, agent_calls, directVars>>

ScrapeNext == CallScrape \/ ScrapeAttempt

ScrapeSpec == Init /\ [][ScrapeNext]_vars

\* ------------------------------------------------------------------------
\* The summarizer called directly on an article, under each behaviour of
\* the capability
\* ------------------------------------------------------------------------
SumArticles ==
    { [article |-> NewsArticle(TitlePage, BodyText(n, sep, pad), UrlA, <<"A">>, Absent),
       words |-> n] : n \in WordCounts, sep \in Separators, pad \in Pads }

SumInit ==
    /\ pc = "sum_call"
    /\ url = <<>>
    /\ max_retries = 0
    /\ attempt = 0
    /\ trace = <<>>
    /\ outcomes = <<>>
    /\ article = NoArticle
    /\ use_ai = TRUE
    /\ urls = <<>>
    /\ idx = 0
    /\ scraped_articles = <<>>
    /\ failed_urls = <<>>
    /\ error_details = <<>>
    /\ response = NoResponse
    /\ db = <<>>
    /\ summarizer_calls = <<>>
    /\ agent_calls = <<>>
    /\ \E a \in SumArticles :
          \/ \E cap \in Capabilities :
                sum_in = [article |-> a.article, cap |-> cap, words |-> a.words,
                          method |-> "summarize_and_categorize"]
          \/ sum_in = [article |-> a.article, cap |-> NoCap, words |-> a.words,
                       method |-> "_fallback_summary"]
    /\ sum_out = NoSumOut
    /\ ex_in = NoEx
    /\ ex_out = NoExOut
    /\ news_call = NoNewsCall
    /\ now = 0

\* await summarizer.summarize_and_categorize(article)
CallSummarize ==
    /\ pc = "sum_call"
    /\ sum_in.method = "summarize_and_categorize"
    /\ sum_out' = summarize_and_categorize(sum_in.article, sum_in.cap)
    /\ agent_calls' = Append(agent_calls, Prompt(sum_in.article))
    /\ pc' = "sum_returned"
    /\ UNCHANGED <<url, max_retries, attempt, trace, outcomes, article, use_ai, requestVars,
                   sum_in, extractVars, newsVars>>

\* summarizer._fallback_summary(article.content)
CallFallback ==
    /\ pc = "sum_call"
    /\ sum_in.method = "_fallback_summary"
    /\ sum_out' = [raised |-> "", summary |-> _fallback_summary(sum_in.article.content),
                    category |-> <<>>]
    /\ pc' = "sum_returned"
    /\ UNCHANGED <<url, max_retries, attempt, trace, outcomes, article, use_ai, requestVars,
                   agent_calls, sum_in, extractVars, newsVars>>

SumNext == CallSummarize \/ CallFallback

SumSpec == SumInit /\ [][SumNext]_vars

\* ------------------------------------------------------------------------
\* The extraction methods called directly, each on its own inputs
\* ------------------------------------------------------------------------
ExtractInputs ==
    { [method |-> "_extract_title", doc |-> d, url |-> <<>>, base_url |-> <<>>] : d \in TitleDocs }
    \cup { [method |-> "_extract_content", doc |-> d, url |-> <<>>, base_url |-> <<>>] :
              d \in BodyDocs }
    \cup { [method |-> m, doc |-> d, url |-> <<>>, base_url |-> b] :
              m \in {"_extract_image", "scrape_article"}, d \in ImageDocs, b \in UrlSet }
    \cup { [method |-> "_make_absolute_url", doc |-> <<>>, url |-> u, base_url |-> b] :
              u \in UrlInputs, b \in BaseUrls }

ExtractInit ==
    /\ pc = "ex_call"
    /\ url = <<>>
    /\ max_retries = 0
    /\ attempt = 0
    /\ trace = <<>>
    /\ outcomes = <<>>
    /\ article = NoArticle
    /\ use_ai = TRUE
    /\ urls = <<>>
    /\ idx = 0
    /\ scraped_articles = <<>>
    /\ failed_urls = <<>>
    /\ error_details = <<>>
    /\ response = NoResponse
    /\ db = <<>>
    /\ summarizer_calls = <<>>
    /\ agent_calls = <<>>
    /\ sum_in = NoSum
    /\ sum_out = NoSumOut
    /\ ex_in \in ExtractInputs
    /\ ex_out = NoExOut
    /\ news_call = NoNewsCall
    /\ now = 0

\* the call returns
Returned(out) ==
    /\ ex_out' = out
    /\ pc' = "ex_returned"
    /\ UNCHANGED <<url, max_retries, attempt, trace, outcomes, article, use_ai, requestVars,
                   agent_calls, sumVars, ex_in, newsVars>>

\* title = self._extract_title(soup)
CallExtractTitle ==
    /\ pc = "ex_call"
    /\ ex_in.method = "_extract_title"
    /\ Returned([NoExOut EXCEPT !.title = _extract_title(ex_in.doc)])

\* content = self._extract_content(soup)
CallExtractContent ==
    /\ pc = "ex_call"
    /\ ex_in.method = "_extract_content"
    /\ Returned([NoExOut EXCEPT !.content = _extract_content(ex_in.doc)])

\* image_url = self._extract_image(soup, url)
CallExtractImage ==
    /\ pc = "ex_call"
    /\ ex_in.method = "_extract_image"
    /\ Returned([NoExOut EXCEPT !.image_url = _extract_image(ex_in.doc, ex_in.base_url)])

\* self._make_absolute_url(url, base_url)
CallMakeAbsolute ==
    /\ pc = "ex_call"
    /\ ex_in.method = "_make_absolute_url"
    /\ Returned([NoExOut EXCEPT !.url = _make_absolute_url(ex_in.url, ex_in.base_url)])

\* one attempt of scrape_article whose GET answered 200 with the document
ParseResponse ==
    /\ pc = "ex_call"
    /\ ex_in.method = "scrape_article"
    /\ Returned([NoExOut EXCEPT
                    !.article = TryBody([raises |-> "", status |-> 200, doc |-> ex_in.doc],
                                        ex_in.base_url).article])

ExtractNext ==
    CallExtractTitle \/ CallExtractContent \/ CallExtractImage \/ CallMakeAbsolute
    \/ ParseResponse

ExtractSpec == ExtractInit /\ [][ExtractNext]_vars

\* ------------------------------------------------------------------------
\* The /news routes over the news_articles collection
\* ------------------------------------------------------------------------
Gossip == <<"G", "o", "s", "s", "i", "p">>

ImageData == <<"d", "a", "t", "a", ":", "i", "m", "g">>

\* the bodies of POST /news/create: category is any string, the image comes
\* not at all, or as a URL together with base64 data
ManualInputs ==
    { [title |-> TitlePage, summary |-> Word(1), category |-> c, source_url |-> UrlA,
       source_name |-> <<"A">>, image_url |-> im[1], image_base64 |-> im[2]] :
          c \in {Technology, Gossip, <<>>},
          im \in {<<Absent, Absent>>, <<Present(ImgAbsolute), Present(ImageData)>>} }

\* the category parameters of GET /news: none, a category, any other string
CategoryParams ==
    {Absent} \cup { Present(c) : c \in {Technology, Business, Gossip, <<>>} }

DefaultLimit == 50

Limits == {1, DefaultLimit}

\* NewsArticleModel(...) as create_news_article builds it: id and the two
\* timestamps come from the defaults of the model
ManualArticleModel(data, id, t) ==
    [id |-> id, title |-> data.title, summary |-> data.summary, category |-> data.category,
     source_url |-> data.source_url, source_name |-> data.source_name,
     image_url |-> IF Falsy(data.image_base64) THEN data.image_url ELSE data.image_base64,
     published_at |-> t, created_at |-> t]

\* a query that matches whatever the category
Mut_QueryMatches(query, a) == TRUE

\* find(query): {} matches every document, {"category": c} those of category c
QueryMatches(query, a) == query.found => a.category = query.value

\* "query = {}; if category: query['category'] = category"
NewsQuery(category) == IF Falsy(category) THEN Absent ELSE category

\* .sort("published_at", -1): newest first, equal dates in stored order
RECURSIVE SortNewest(_)
SortNewest(as) ==
    IF as = <<>> THEN <<>>
    ELSE LET newest == CHOOSE i \in DOMAIN as :
                          /\ \A j \in DOMAIN as : as[j].published_at <= as[i].published_at
                          /\ \A j \in 1..(i - 1) : as[j].published_at < as[i].published_at
         IN  <<as[newest]>>
             \o SortNewest(SubSeq(as, 1, newest - 1) \o SubSeq(as, newest + 1, Len(as)))

\* find(query).sort("published_at", -1).limit(limit).to_list(limit)
FindNews(coll, query, limit) ==
    Take(SortNewest(SelectSeq(coll, LAMBDA a : QueryMatches(query, a))), limit)

\* delete_one({"id": id}): the first document of that id is removed
DeleteOne(coll, id) ==
    LET hits == {i \in DOMAIN coll : coll[i].id = id}
        first == CHOOSE i \in hits : \A j \in hits : i <= j
    IN  IF hits = {} THEN coll
        ELSE SubSeq(coll, 1, first - 1) \o SubSeq(coll, first + 1, Len(coll))

NewsInit ==
    /\ pc = "serving"
    /\ url = <<>>
    /\ max_retries = 0
    /\ attempt = 0
    /\ trace = <<>>
    /\ outcomes = <<>>
    /\ article = NoArticle
    /\ use_ai = TRUE
    /\ urls = <<>>
    /\ idx = 0
    /\ scraped_articles = <<>>
    /\ failed_urls = <<>>
    /\ error_details = <<>>
    /\ response = NoResponse
    /\ db = <<>>
    /\ summarizer_calls = <<>>
    /\ agent_calls = <<>>
    /\ sum_in = NoSum
    /\ sum_out = NoSumOut
    /\ ex_in = NoEx
    /\ ex_out = NoExOut
    /\ news_call = NoNewsCall
    /\ now = 0

\* what the /news routes leave alone
NewsUnchanged ==
    UNCHANGED <<scrapeVars, use_ai, urls, idx, scraped_articles, failed_urls, error_details,
                response, summarizer_calls, agent_calls, sumVars, extractVars>>

\* POST /news/create
create_news_article ==
    /\ pc = "serving"
    /\ now < MaxArticles
    /\ \E data \in ManualInputs :
        LET article_model == ManualArticleModel(data, now + 1, now + 1)
        IN  /\ db' = Append(db, article_model)
            /\ news_call' = [NoNewsCall EXCEPT !.route = "create_news_article",
                                               !.status = 200,
                                               !.articles = <<article_model>>]
    /\ now' = now + 1
    /\ NewsUnchanged

\* DELETE /news/{article_id}: 404 when no document was deleted
delete_news_article ==
    /\ pc = "serving"
    /\ \E id \in 1..MaxArticles :
        /\ db' = DeleteOne(db, id)
        /\ news_call' = [NoNewsCall EXCEPT !.route = "delete_news_article", !.id = id,
                                           !.status = IF db' = db THEN 404 ELSE 200]
    /\ UNCHANGED now
    /\ NewsUnchanged

\* GET /news?category=...&limit=...
get_news ==
    /\ pc = "serving"
    /\ \E category \in CategoryParams : \E limit \in Limits :
        news_call' = [NoNewsCall EXCEPT !.route = "get_news", !.category = category,
                                        !.limit = limit, !.status = 200,
                                        !.articles = FindNews(db, NewsQuery(category), limit)]
    /\ UNCHANGED <<db, now>>
    /\ NewsUnchanged

NewsNext == create_news_article \/ delete_news_article \/ get_news

NewsSpec == NewsInit /\ [][NewsNext]_vars

\* ------------------------------------------------------------------------
\* Properties
\* ------------------------------------------------------------------------
Last(s) == s[Len(s)]

Range(s) == {s[i] : i \in 1..Len(s)}

\* z is an interleaving of x and y that keeps the order of both
RECURSIVE IsMerge(_, _, _)
IsMerge(z, x, y) ==
    IF z = <<>> THEN x = <<>> /\ y = <<>>
    ELSE \/ x # <<>> /\ Head(x) = Head(z) /\ IsMerge(Tail(z), Tail(x), y)
         \/ y # <<>> /\ Head(y) = Head(z) /\ IsMerge(Tail(z), x, Tail(y))

SourceUrls(models) == [i \in 1..Len(models) |-> models[i].source_url]

ExtractionFailures == {"no_title", "no_content"}

\* the GETs and sleeps of n attempts that all fail: GET, sleep 2, GET, sleep 4, ...
FailingTrace(n) ==
    [i \in 1..(2 * n - 1) |->
        IF i % 2 = 1 THEN [ev |-> "get", n |-> (i + 1) \div 2]
                     ELSE [ev |-> "sleep", n |-> 2 ^ (i \div 2)]]

\* the text of the first m generated words, single spaces between them
FirstWords(m) ==
    [i \in 1..(3 * m - 1) |->
        IF i % 3 = 0 THEN " " ELSE Word((i + 2) \div 3)[((i - 1) % 3) + 1]]

\* C1: no exception leaves the handler or scrape_article, and when the
\* response is returned the loop has been through every URL, the response
\* reports success with both counts, the counts add up to the number of
\* URLs, and the URL list is an interleaving of the articles' URLs and
\* failed_urls (each position ends in exactly one of the two).
C1_EveryUrlAccounted ==
    /\ pc \notin {"raised", "scrape_raised"}
    /\ pc = "done" =>
        /\ idx = Len(urls)
        /\ response.success
        /\ response.scraped_count = Len(response.articles)
        /\ response.failed_count = Len(response.failed_urls)
        /\ response.scraped_count + response.failed_count = Len(urls)
        /\ IsMerge(urls, SourceUrls(response.articles), response.failed_urls)

\* a finished run over two URLs, one that could not be scraped and one whose
\* processing raised after a successful scrape
C1_Witness ==
    /\ pc = "done"
    /\ Len(urls) >= 2
    /\ \E u \in DOMAIN response.error_details : response.error_details[u] = MsgNotExtracted
    /\ \E u \in DOMAIN response.error_details : response.error_details[u] = MsgNoAttribute

\* C2: with the AI step disabled, a URL whose fetch and extraction succeeded
\* is appended to the articles with a non-empty summary and a category of
\* the fixed set, and the capability has not been called.
C2_OfflineArticleSaved ==
    (~use_ai /\ pc = "loop" /\ idx > 0 /\ article.some) =>
        /\ scraped_articles # <<>>
        /\ Last(scraped_articles).source_url = urls[idx]
        /\ Last(scraped_articles).summary # <<>>
        /\ Last(scraped_articles).category \in CATEGORIES
        /\ agent_calls = <<>>

\* C3: with the AI step enabled, a step that processes a scraped article and
\* in which the summarization call fails appends the article, with the
\* fallback summary, to the articles and leaves failed_urls alone.
C3_AiFailureAbsorbed ==
    [][ ( /\ pc = "returned" /\ article.some /\ use_ai
          /\ Len(summarizer_calls') > Len(summarizer_calls)
          /\ summarizer_calls'[Len(summarizer_calls) + 1].method = "summarize_and_categorize"
          /\ summarizer_calls'[Len(summarizer_calls) + 1].raised # "" )
        => ( /\ failed_urls' = failed_urls
             /\ Len(scraped_articles') = Len(scraped_articles) + 1
             /\ Last(scraped_articles').source_url = url
             /\ Last(scraped_articles').summary = _fallback_summary(article.content) ) ]_vars

\* C4: scrape_article never raises, and a call with max_retries n >= 1 whose
\* every attempt failed has returned absent after exactly n GETs, with no
\* sleep before the first and a sleep of 2^k between GET k and GET k+1.
C4_RetryBudget ==
    /\ pc # "scrape_raised"
    /\ ( /\ pc = "returned" /\ max_retries >= 1
         /\ \A k \in 1..Len(outcomes) : outcomes[k].branch # "article" )
       => /\ ~article.some
          /\ Len(outcomes) = max_retries
          /\ trace = FailingTrace(max_retries)

\* a call with max_retries 3 that got 403 three times
C4_Witness ==
    /\ pc = "returned"
    /\ max_retries = 3
    /\ ~article.some
    /\ Len(outcomes) = 3
    /\ \A k \in 1..3 : outcomes[k].status = 403
    /\ trace = << [ev |-> "get", n |-> 1], [ev |-> "sleep", n |-> 2], [ev |-> "get", n |-> 2],
                  [ev |-> "sleep", n |-> 4], [ev |-> "get", n |-> 3] >>

\* C5 as stated: an attempt whose extraction failed is the only attempt of
\* the call, and the call is over with it.
C5_ExtractionNotRetried ==
    \A k \in 1..Len(outcomes) :
        outcomes[k].branch \in ExtractionFailures =>
            /\ Len(outcomes) = 1
            /\ pc # "scraping"

\* C5 amended: an extraction failure is retried like any other failed
\* attempt: after one on an attempt before the last, the loop goes on to a
\* further GET; one on the last attempt ends the call with absent, and the
\* URL is then recorded in failed_urls with a reason.
C5_ExtractionRetried ==
    \A k \in 1..Len(outcomes) :
        outcomes[k].branch \in ExtractionFailures =>
            /\ k < max_retries => (k < Len(outcomes) \/ pc = "scraping")
            /\ k = max_retries =>
                /\ k = Len(outcomes) /\ pc # "scraping" /\ ~article.some
                /\ pc \in {"loop", "done"} =>
                      (failed_urls # <<>> /\ Last(failed_urls) = url /\ url \in DOMAIN error_details)

\* a further GET followed an extraction failure, and the URL failed after an
\* extraction failure on the last attempt
C5_Witness ==
    /\ pc = "loop"
    /\ Len(outcomes) = DefaultMaxRetries
    /\ outcomes[1].branch = "no_title"
    /\ outcomes[3].branch = "no_content"
    /\ Last(failed_urls) = url

\* C6 as stated: a URL that answered 404 to every GET is in failed_urls with
\* a reason after exactly one GET.
C6_NotFoundOneAttempt ==
    ( /\ pc = "loop" /\ idx > 0 /\ outcomes # <<>>
      /\ \A k \in 1..Len(outcomes) : outcomes[k].status = 404 )
    => /\ Len(outcomes) = 1
       /\ failed_urls # <<>> /\ Last(failed_urls) = url
       /\ url \in DOMAIN error_details

\* C6 amended: a URL that answered 404 to every GET is in failed_urls with a
\* reason after exactly max_retries (3) GETs, with the same backoff sleeps as
\* for 401/403/429.
C6_NotFoundRetried ==
    ( /\ pc = "loop" /\ idx > 0 /\ outcomes # <<>>
      /\ \A k \in 1..Len(outcomes) : outcomes[k].status = 404 )
    => /\ Len(outcomes) = DefaultMaxRetries
       /\ trace = FailingTrace(DefaultMaxRetries)
       /\ failed_urls # <<>> /\ Last(failed_urls) = url
       /\ url \in DOMAIN error_details /\ error_details[url] = MsgNotExtracted

C6_Witness ==
    /\ pc = "loop" /\ idx > 0
    /\ Len(outcomes) = 3
    /\ \A k \in 1..3 : outcomes[k].status = 404
    /\ Last(failed_urls) = url

\* C7: an article returned by scrape_article has a non-empty title and a
\* body of more than 100 characters, and every call made on the summarizer
\* was made for such an article.
C7_OnlyValidArticles ==
    /\ article.some => (article.title # <<>> /\ Len(article.content) > 100)
    /\ \A k \in 1..Len(summarizer_calls) :
          /\ summarizer_calls[k].arg.some
          /\ summarizer_calls[k].arg.title # <<>>
          /\ Len(summarizer_calls[k].arg.content) > 100

\* the first URL was scraped and handed to the summarizer, the second came
\* back absent and was not
C7_Witness ==
    /\ pc = "loop" /\ idx = 2
    /\ ~article.some
    /\ Len(failed_urls) = 2
    /\ Len(summarizer_calls) = 1
    /\ Len(summarizer_calls[1].arg.content) = 101

\* C8: summarize_and_categorize returns without raising, with a category of
\* the fixed set, which is Business whenever the capability failed or the
\* parsed CATEGORY field is not in the set.
C8_CategoryInFixedSet ==
    (pc = "sum_returned" /\ sum_in.method = "summarize_and_categorize") =>
        /\ sum_out.raised = ""
        /\ sum_out.category \in {Technology, Business, Sports}
        /\ ( \/ sum_in.cap.raises # "" \/ ~sum_in.cap.success \/ ~sum_in.cap.has_content
             \/ _extract_field(sum_in.cap.content, CATEGORY_FIELD)
                    \notin {Technology, Business, Sports} )
           => sum_out.category = Business

\* the capability answered with a category outside the set
C8_Witness ==
    /\ pc = "sum_returned" /\ sum_in.method = "summarize_and_categorize"
    /\ sum_in.cap.has_content
    /\ _extract_field(sum_in.cap.content, CATEGORY_FIELD) = <<"G", "o", "s", "s", "i", "p">>
    /\ sum_out.category = Business

\* C9: the fallback summary of a body of n words is its first min(n, 60)
\* words joined by single spaces, followed by "..." exactly when n > 60.
C9_FallbackSummary ==
    (pc = "sum_returned" /\ sum_in.method = "_fallback_summary") =>
        sum_out.summary =
            FirstWords(IF sum_in.words > 60 THEN 60 ELSE sum_in.words)
                \o (IF sum_in.words > 60 THEN <<".", ".", ".">> ELSE <<>>)

\* a body of more than 60 words, separated by more than single spaces
C9_Witness ==
    /\ pc = "sum_returned" /\ sum_in.method = "_fallback_summary"
    /\ sum_in.words = 61
    /\ Len(sum_in.article.content) > 3 * 61
    /\ Len(sum_out.summary) = 3 * 60 - 1 + 3

\* C10: in the response the keys of error_details are exactly the URLs of
\* failed_urls and every reason is a non-empty string.
C10_ReasonPerFailedUrl ==
    pc = "done" =>
        /\ DOMAIN response.error_details = Range(response.failed_urls)
        /\ \A u \in DOMAIN response.error_details : response.error_details[u] # ""

\* a run in which every URL failed, for different URLs
C10_Witness ==
    /\ pc = "done"
    /\ response.failed_count = Len(urls)
    /\ Cardinality(DOMAIN response.error_details) = 2

\* the elements of a document that are Open-Graph titles with non-empty
\* content, and its headings
OgTitleElements(doc) ==
    {i \in DOMAIN doc : doc[i].tag = "meta" /\ doc[i].property = "og:title"
                        /\ doc[i].has_content /\ Strip(doc[i].content) # <<>>}

HeadingElements(doc) == {j \in DOMAIN doc : doc[j].tag = "h1"}

\* what a heading without child elements contributes as a title
HeadingTitle(e) == IF e.has_content THEN Strip(e.content) ELSE Strip(e.text)

TitleReturned == pc = "ex_returned" /\ ex_in.method = "_extract_title"

\* C11 as stated: for a document with an Open-Graph title of non-empty
\* content and an h1 of different non-empty text, the extracted title is the
\* Open-Graph content.
C11_OgTitleFirst ==
    TitleReturned =>
        \A i \in OgTitleElements(ex_in.doc) : \A j \in HeadingElements(ex_in.doc) :
            (HeadingTitle(ex_in.doc[j]) # <<>>
             /\ HeadingTitle(ex_in.doc[j]) # Strip(ex_in.doc[i].content))
                => ex_out.title = Present(Strip(ex_in.doc[i].content))

\* C11 amended: the headings are tried before the Open-Graph title. For a
\* document with an Open-Graph title of non-empty content, the extracted
\* title is what the first h1 of the document gives, and the Open-Graph
\* content only when the document has no h1.
C11_HeadingFirst ==
    TitleReturned =>
        \A i \in OgTitleElements(ex_in.doc) :
            LET hs == HeadingElements(ex_in.doc)
            IN  IF hs = {}
                THEN ex_out.title = Present(Strip(ex_in.doc[i].content))
                ELSE \E j \in hs : /\ \A k \in hs : j <= k
                                   /\ ex_out.title = Present(HeadingTitle(ex_in.doc[j]))

\* a page with og:title " Og " and <h1> News </h1>: the title is "News"
C11_Witness ==
    /\ TitleReturned
    /\ OgTitleElements(ex_in.doc) # {}
    /\ \E j \in HeadingElements(ex_in.doc) : ex_in.doc[j].text = TitleNews
    /\ ex_out.title = Present(<<"N", "e", "w", "s">>)

\* what each title candidate of a document gives, in the order the code
\* tries them, <<>> for a candidate the document does not have
TitleCandidates(doc) ==
    LET t == Find(doc, 0, Sel("title", "", "", ""))
    IN  [k \in 1..Len(TitleSelectors) |->
            LET e == select_one(doc, TitleSelectors[k])
            IN  IF e = 0 THEN <<>> ELSE HeadingTitle(doc[e])]
        \o <<IF t = 0 THEN <<>> ELSE Strip(doc[t].text)>>

\* C12: the extracted title is the first candidate, in order, whose trimmed
\* text is non-empty; a candidate that is present but empty is skipped, and
\* the title is absent or empty only when every candidate is.
C12_EmptyCandidateSkipped ==
    TitleReturned =>
        LET vals == TitleCandidates(ex_in.doc)
            nonempty == {k \in DOMAIN vals : vals[k] # <<>>}
        IN  IF nonempty = {} THEN Falsy(ex_out.title)
            ELSE \E k \in nonempty : /\ \A j \in nonempty : k <= j
                                     /\ ex_out.title = Present(vals[k])

RECURSIVE StrippedChars(_, _)
StrippedChars(doc, ps) ==
    IF ps = {} THEN 0
    ELSE LET i == CHOOSE k \in ps : TRUE
         IN  Len(Strip(doc[i].text)) + StrippedChars(doc, ps \ {i})

\* the number of characters of all the paragraph texts of a document,
\* trimmed and joined with single spaces
ParagraphChars(doc) ==
    LET ps == {i \in DOMAIN doc : doc[i].tag = "p"}
    IN  IF ps = {} THEN 0 ELSE StrippedChars(doc, ps) + Cardinality(ps) - 1

ContentReturned == pc = "ex_returned" /\ ex_in.method = "_extract_content"

\* C13: body extraction returns absent for every document whose paragraph
\* text, joined with single spaces, is at most 100 characters long, whatever
\* containers hold the paragraphs; a body that is returned is longer than
\* 100 characters.
C13_ShortBodyAbsent ==
    ContentReturned =>
        /\ ParagraphChars(ex_in.doc) <= 100 => ex_out.content = Absent
        /\ ex_out.content.found => Len(ex_out.content.value) > 100

\* two paragraphs that join to exactly 100 characters, inside containers
C13_Witness ==
    /\ ContentReturned
    /\ ParagraphChars(ex_in.doc) = 100
    /\ Cardinality({i \in DOMAIN ex_in.doc : ex_in.doc[i].tag = "p"}) = 2
    /\ \E i \in DOMAIN ex_in.doc : ex_in.doc[i].tag \in {"article", "main"}
    /\ ex_out.content = Absent

AbsoluteReturned == pc = "ex_returned" /\ ex_in.method = "_make_absolute_url"

\* C14: _make_absolute_url returns an input that begins with "http"
\* unchanged, and for an input that begins with "/" returns the scheme and
\* host of the base URL, "://" between them, followed by the input unchanged.
C14_MakeAbsoluteUrl ==
    AbsoluteReturned =>
        /\ (Len(ex_in.url) >= 4 /\ SubSeq(ex_in.url, 1, 4) = <<"h", "t", "t", "p">>)
               => ex_out.url = ex_in.url
        /\ (ex_in.url # <<>> /\ ex_in.url[1] = "/") =>
               \A sc \in Schemes : \A h \in Hosts : \A t \in Tails :
                   ex_in.base_url = BaseUrl(sc, h, t)
                       => ex_out.url = sc \o <<":", "/", "/">> \o h \o ex_in.url

\* "/a/b?q=1" under "https://www.b.io/x/y?z=1" gives "https://www.b.io/a/b?q=1"
C14_Witness ==
    /\ AbsoluteReturned
    /\ ex_in.url = ImgQuery
    /\ Len(ex_in.base_url) = 8 + 8 + 8
    /\ ex_out.url = <<"h", "t", "t", "p", "s", ":", "/", "/", "w", "w", "w", ".", "b", ".",
                      "i", "o">> \o ImgQuery

\* an http or https URL with a host
IsAbsoluteUrl(u) ==
    \E sc \in Schemes :
        LET prefix == sc \o <<":", "/", "/">>
        IN  /\ Len(u) > Len(prefix)
            /\ SubSeq(u, 1, Len(prefix)) = prefix
            /\ u[Len(prefix) + 1] \notin {"/", "?", "#"}

\* C15: the image_url of an article the scraper produces is absent or an
\* absolute URL, whichever of the three image sources supplied it.
C15_ImageUrlAbsolute ==
    (pc = "ex_returned" /\ ex_in.method = "scrape_article" /\ ex_out.article.some) =>
        \/ ex_out.article.image_url = Absent
        \/ IsAbsoluteUrl(ex_out.article.image_url.value)

\* the line of a text that holds position k
LineAt(text, k) ==
    LET before == {j \in 1..(k - 1) : text[j] = "\n"}
        after == {j \in k..Len(text) : text[j] = "\n"}
        first == IF before = {} THEN 1
                 ELSE (CHOOSE j \in before : \A i \in before : i <= j) + 1
        last == IF after = {} THEN Len(text)
                ELSE (CHOOSE j \in after : \A i \in after : j <= i) - 1
    IN  SubSeq(text, first, last)

\* the fallback summary of the body the summarizer was called on
ExpectedFallback ==
    FirstWords(IF sum_in.words > 60 THEN 60 ELSE sum_in.words)
        \o (IF sum_in.words > 60 THEN <<".", ".", ".">> ELSE <<>>)

SummarizeReturned == pc = "sum_returned" /\ sum_in.method = "summarize_and_categorize"

NewsReturned == news_call.route = "get_news" /\ news_call.status = 200

\* C17 as stated: after any creations and deletions, GET /news with a
\* category parameter returns only stored articles whose category equals
\* the parameter.
C17_OnlyThatCategory ==
    (NewsReturned /\ news_call.category.found) =>
        \A a \in Range(news_call.articles) :
            a \in Range(db) /\ a.category = news_call.category.value

\* C17 amended: GET /news with a non-empty category parameter returns only
\* stored articles whose category equals the parameter; an empty parameter
\* is treated as none, and the stored articles of every category are
\* returned, up to the limit.
C17_NonEmptyCategoryFilters ==
    NewsReturned =>
        /\ \A a \in Range(news_call.articles) : a \in Range(db)
        /\ (news_call.category.found /\ news_call.category.value # <<>>) =>
               \A a \in Range(news_call.articles) : a.category = news_call.category.value
        /\ (news_call.category.found /\ news_call.category.value = <<>>) =>
               Len(news_call.articles) = Min(news_call.limit, Len(db))

\* after three creations and a deletion, two stored articles of different
\* categories: the request for one category returns just the one
C17_Witness ==
    /\ NewsReturned
    /\ now = 3 /\ Len(db) = 2
    /\ db[1].category # db[2].category
    /\ news_call.category = Present(db[2].category) /\ db[2].category # <<>>
    /\ news_call.limit = DefaultLimit
    /\ news_call.articles = <<db[2]>>

\* the GET requests of the running call
Gets == SelectSeq(trace, LAMBDA e : e.ev = "get")

\* C18: the retry loop of scrape_article stops at the first attempt that
\* yields an article: that attempt is the last one, the number of GETs is
\* its index, the GET of that attempt is the last event of the call (no GET
\* and no sleep follows), and the article is returned. The number of GETs
\* never exceeds max_retries; with max_retries 0 there is no GET and the
\* result is absent.
C18_StopsAtFirstArticle ==
    /\ Len(Gets) <= max_retries
    /\ \A k \in DOMAIN outcomes :
          outcomes[k].branch = "article" =>
              /\ k = Len(outcomes)
              /\ Len(Gets) = k
              /\ Last(trace) = [ev |-> "get", n |-> k]
              /\ pc = "returned"
              /\ article.some
    /\ (pc # "idle" /\ max_retries = 0) =>
          (pc = "returned" /\ trace = <<>> /\ ~article.some)

\* max_retries 4, two failed attempts, an article on the third: three GETs
C18_Witness ==
    /\ pc = "returned"
    /\ max_retries = 4
    /\ Len(outcomes) = 3
    /\ outcomes[3].branch = "article"
    /\ outcomes[1].branch # "article" /\ outcomes[2].branch # "article"
    /\ Len(Gets) = 3
    /\ article.some

====
